---- MODULE Spec2Model ----
(***************************************************************************)
(* Lifecycle controller of well-known-components/interfaces                *)
(* (src/src/utils/lifecycle.ts): Lifecycle.run, program.startComponents,   *)
(* program.stop, program.beforeStopComponents, the signal handler and the  *)
(* top-level exception handler.                                            *)
(*                                                                         *)
(* JavaScript runs one continuation at a time; an action of this module is *)
(* one run-to-suspension segment of the code (from a call or the           *)
(* resumption of an await up to the next await), or one event of the       *)
(* environment (a signal arrives, the wiring function calls the program    *)
(* handle, returns or throws).  The settling of a promise that a hook      *)
(* returned is taken together with the resumption of the await that waits  *)
(* for it: nothing but that await observes it.                             *)
(***************************************************************************)
EXTENDS Integers, Sequences, FiniteSets

\* ------------------------------------------------------------------ bounds
MaxComponents == 2      \* longest registry explored
MaxHooks      == 2      \* beforeStopComponents registrations explored
MaxStartCalls == 2      \* program.startComponents() calls explored
MaxTeardowns  == 2      \* stopProgram() invocations explored

\* ---------------------------------------------------------------- registry
\* A registry entry: kind "object" | "null" | "promise", and which of the
\* two hook conventions ("none", "current", "legacy", "both") it exposes for
\* start and for stop.
Component(k, st, sp) == [kind |-> k, start |-> st, stop |-> sp]

\* The shapes of entry the exploration draws registries from.
ComponentShapes ==
    { Component("object", "current", "current"), Component("object", "none", "none") }

RECURSIVE SeqsUpTo(_, _)
SeqsUpTo(S, n) ==
    IF n = 0 THEN { <<>> }
    ELSE LET shorter == SeqsUpTo(S, n - 1)
         IN  shorter \cup { Append(s, x) : s \in { q \in shorter : Len(q) = n - 1 }, x \in S }

Registries == SeqsUpTo(ComponentShapes, MaxComponents)

\* The shapes for the exploration of hook resolution and of entries that are
\* not components: each convention, mixed conventions, null, a promise.
EntryShapes ==
    { Component("object", k, k) : k \in {"none", "current", "legacy", "both"} }
    \cup { Component("object", "legacy", "current"), Component("object", "current", "legacy"),
           Component("null", "none", "none"), Component("promise", "none", "none") }

EntryRegistries == SeqsUpTo(EntryShapes, MaxComponents)

\* ResolveStart looking at the deprecated name first
ResolveStartLegacyFirst(comp) ==
    IF comp.kind # "object" THEN "absent"
    ELSE IF comp.start \in {"legacy", "both"} THEN "legacy"
    ELSE IF comp.start = "current" THEN "current"
    ELSE "absent"

\* typeof component[START_COMPONENT] == "function", else component.start
ResolveStart(comp) ==
    IF comp.kind # "object" THEN "absent"
    ELSE IF comp.start \in {"current", "both"} THEN "current"
    ELSE IF comp.start = "legacy" THEN "legacy"
    ELSE "absent"

\* typeof component[STOP_COMPONENT] == "function", else component.stop
ResolveStop(comp) ==
    IF comp.kind # "object" THEN "absent"
    ELSE IF comp.stop \in {"current", "both"} THEN "current"
    ELSE IF comp.stop = "legacy" THEN "legacy"
    ELSE "absent"

\* ------------------------------------------------------------------ errors
NoErr       == [kind |-> "none",   c |-> 0]
WiringErr   == [kind |-> "wiring", c |-> 0]
StartErr(c) == [kind |-> "start",  c |-> c]
StopErr(c)  == [kind |-> "stop",   c |-> c]
NullErr(c)  == [kind |-> "null",   c |-> c]
EntryErr(c) == [kind |-> "entry",  c |-> c]   \* rejection of an entry that is a promise

Signals == {"SIGTERM", "SIGINT"}

VARIABLES
    registry,           \* components: the frozen registry (run, line 217)
    runPc,              \* position of the body of run()
    mainErr,            \* e caught by run's catch
    topErr,             \* error handed to asyncTopLevelExceptionHanler
    exitCode,           \* -1 while the process lives, else the exit status
    listeners,          \* signals for which termHandler is installed
    handlers,           \* beforeStopComponentHandlers (queue of hook ids)
    hookState,          \* per registered hook: queued/pending/resolved/rejected
    hookLog,            \* hook ids in the order they were invoked
    componentsStarted,  \* 0 = undefined, else the lifecycle instance bound
    calls,              \* per startComponents() call: the instance it returned
    lc,                 \* startComponentsLifecycle invocations
    startCalls,         \* per component: start hook invocations
    td,                 \* stopProgram invocations
    nTd,                \* number of stopProgram invocations so far
    stopCalls,          \* per component: stop hook invocations
    invoked,            \* hook functions called: <<"start"|"stop", c, convention>>
    logged              \* WARN and ERROR lines written (log, console.error)

runVars   == <<runPc, mainErr, topErr, exitCode>>
hookVars  == <<handlers, hookState, hookLog>>
startVars == <<componentsStarted, calls, lc, startCalls>>
stopVars  == <<td, nTd, stopCalls>>
obsVars   == <<invoked, logged>>
vars      == <<registry, runVars, listeners, hookVars, startVars, stopVars, obsVars>>

Comps == DOMAIN registry
Alive == exitCode = -1

\* ------------------------------------------------- startComponentsLifecycle
IdleLc ==
    [pc |-> "idle", idx |-> 0, pending |-> <<>>,
     ops |-> [c \in Comps |-> "none"],
     live |-> FALSE, started |-> FALSE, err |-> NoErr]

Settled(pc) == pc \in {"resolved", "rejected"}

\* PostLoop without the assignment mutLive = true
PostLoopNoLive(r) ==
    IF Len(r.pending) = 0
    THEN [r EXCEPT !.pc = "resolved"]
    ELSE [r EXCEPT !.pc = "join"]

\* lines 113-116: mutLive = true; if (pending.length == 0) return;
\* otherwise Promise.all(pending) is awaited
PostLoop(r) ==
    IF Len(r.pending) = 0
    THEN [r EXCEPT !.live = TRUE, !.pc = "resolved"]
    ELSE [r EXCEPT !.live = TRUE, !.pc = "join"]

\* next iteration of for (let c in components): it suspends at
\* await components[c] (line 73); after the last key the loop is left
NextIter(r) ==
    IF r.idx < Len(registry)
    THEN [r EXCEPT !.pc = "check", !.idx = r.idx + 1]
    ELSE PostLoop(r)

\* Reject with the failure ignored: the loop goes on
RejectIgnored(r, e) == NextIter(r)

\* a throw inside startComponentsLifecycle leaves the function: its promise
\* rejects with e
Reject(r, e) == [r EXCEPT !.pc = "rejected", !.err = e]

\* StartGuard without the one-shot test
StartGuardAlways(cs) == TRUE

\* if (!componentsStarted) in program.startComponents
StartGuard(cs) == cs = 0

\* program.startComponents(), called by the wiring function: run() hands
\* EntryPointParameters to config.main only and returns the narrower
\* ComponentBasedProgram (lines 145-171, 210)
CallStartComponents ==
    /\ Alive
    /\ runPc = "wiring"
    /\ Len(calls) < MaxStartCalls
    /\ LET l == Len(calls) + 1 IN
       IF StartGuard(componentsStarted)
       THEN /\ componentsStarted' = l
            /\ lc' = [lc EXCEPT ![l] = NextIter(lc[l])]
            /\ calls' = Append(calls, l)
            /\ UNCHANGED logged
       ELSE /\ calls' = Append(calls, componentsStarted)
            /\ logged' = logged \cup {<<"startComponents-once", 0>>}
            /\ UNCHANGED <<componentsStarted, lc>>
    /\ UNCHANGED <<registry, runVars, listeners, hookVars, startCalls, stopVars, invoked>>

\* resumption of await components[c] (line 73) up to the next suspension:
\* the promise test, the null check, hook resolution and the call of the
\* start hook (lines 73-97).  For an entry that is a promise the await
\* resumes when that promise settles: its rejection leaves the function.
LcCheck(l, outcome) ==
    /\ Alive
    /\ lc[l].pc = "check"
    /\ LET r == lc[l]
           c == r.idx
           comp == registry[c]
           fn == ResolveStart(comp)
       IN
       IF comp.kind = "promise" /\ outcome = "throw"
       THEN /\ lc' = [lc EXCEPT ![l] = Reject(r, EntryErr(c))]
            /\ UNCHANGED <<startCalls, invoked, logged>>
       ELSE IF comp.kind = "null"
       THEN /\ lc' = [lc EXCEPT ![l] = Reject(r, NullErr(c))]
            /\ UNCHANGED <<startCalls, invoked, logged>>
       ELSE IF fn = "absent"
       THEN /\ lc' = [lc EXCEPT ![l] = NextIter(r)]
            /\ logged' = IF comp.kind = "promise"
                         THEN logged \cup {<<"is-a-promise", c>>} ELSE logged
            /\ UNCHANGED <<startCalls, invoked>>
       ELSE /\ startCalls' = [startCalls EXCEPT ![c] = @ + 1]
            /\ invoked' = invoked \cup {<<"start", c, fn>>}
            /\ logged' = IF fn = "legacy"
                         THEN logged \cup {<<"start-deprecated", c>>} ELSE logged
            /\ lc' = [lc EXCEPT ![l] =
                 CASE outcome = "sync"  -> NextIter(r)
                   [] outcome = "throw" -> Reject([r EXCEPT !.ops[c] = "threw"], StartErr(c))
                   [] OTHER -> [r EXCEPT !.pending = Append(@, c),
                                          !.ops[c] = "pending",
                                          !.pc = "await"]]
    /\ UNCHANGED <<registry, runVars, listeners, hookVars, componentsStarted, calls, stopVars>>

\* AwaitStart with the await missing: the operation is left pending
NoAwaitStart(op, ok) == op

\* what await awaitable (line 97) leaves of the awaited operation: the loop
\* goes on only once the operation has settled
AwaitStart(op, ok) == IF ok THEN "resolved" ELSE "rejected"

\* the promise of the start hook settles and await awaitable (line 97)
\* resumes: the next iteration, or the rejection leaves the function
LcAwaited(l, ok) ==
    /\ Alive
    /\ lc[l].pc = "await"
    /\ LET c == lc[l].idx
           r == [lc[l] EXCEPT !.ops[c] = AwaitStart(@, ok)]
       IN  lc' = [lc EXCEPT ![l] =
                 IF r.ops[c] = "rejected" THEN Reject(r, StartErr(c)) ELSE NextIter(r)]
    /\ UNCHANGED <<registry, runVars, listeners, hookVars, componentsStarted, calls, startCalls, stopVars, obsVars>>

PendingOps(r) == { r.pending[i] : i \in DOMAIN r.pending }

\* lines 118-125: await Promise.all(pending); mutStarted = true; on a
\* rejection await allSettled(pending) and rethrow
LcJoin(l) ==
    /\ Alive
    /\ lc[l].pc = "join"
    /\ \A c \in PendingOps(lc[l]) : lc[l].ops[c] # "pending"
    /\ lc' = [lc EXCEPT ![l] =
         IF \A c \in PendingOps(lc[l]) : lc[l].ops[c] = "resolved"
         THEN [lc[l] EXCEPT !.started = TRUE, !.pc = "resolved"]
         ELSE Reject(lc[l],
                StartErr(CHOOSE c \in PendingOps(lc[l]) : lc[l].ops[c] = "rejected"))]
    /\ logged' = IF \A c \in PendingOps(lc[l]) : lc[l].ops[c] = "resolved"
                 THEN logged ELSE logged \cup {<<"init-error", 0>>}
    /\ UNCHANGED <<registry, runVars, listeners, hookVars, componentsStarted, calls, startCalls, stopVars, invoked>>

\* -------------------------------------------------- beforeStopComponents
NumHooks == Cardinality({ h \in 1..MaxHooks : hookState[h] # "none" })

\* program.beforeStopComponents(callback), called by the wiring function:
\* beforeStopComponentHandlers.push
RegisterHook ==
    /\ Alive
    /\ runPc = "wiring"
    /\ NumHooks < MaxHooks
    /\ handlers' = Append(handlers, NumHooks + 1)
    /\ hookState' = [hookState EXCEPT ![NumHooks + 1] = "queued"]
    /\ UNCHANGED <<registry, runVars, listeners, hookLog, startVars, stopVars, obsVars>>

\* NextHandler taking the newest handler, as pop() would
LastHandler(q) == q[Len(q)]

\* the handler beforeStopComponentHandlers.shift() returns (line 226)
NextHandler(q) == Head(q)

\* while (beforeStopComponentHandlers.length) { await (shift()!)() }:
\* the loop head up to its suspension, or the end of the drain
DrainRec(r) ==
    IF handlers = <<>>
    THEN [r EXCEPT !.pc = "comps", !.hook = 0]
    ELSE [r EXCEPT !.pc = "hookwait", !.hook = NextHandler(handlers)]

\* the effect of the same segment on the queue; h, when not 0, is the hook
\* whose promise has just settled as res
DrainHooks(h, res) ==
    LET hs == IF h = 0 THEN hookState ELSE [hookState EXCEPT ![h] = res] IN
    IF handlers = <<>>
    THEN /\ hookState' = hs
         /\ UNCHANGED <<handlers, hookLog>>
    ELSE /\ handlers' = Tail(handlers)
         /\ hookState' = [hs EXCEPT ![NextHandler(handlers)] = "pending"]
         /\ hookLog' = Append(hookLog, NextHandler(handlers))

\* ------------------------------------------- stopProgram, stopAllComponents
IdleTd ==
    [pc |-> "idle", trigger |-> "none", pos |-> 0, cur |-> 0, hook |-> 0,
     ops |-> [c \in Comps |-> "none"], log |-> <<>>, err |-> NoErr,
     hooksBefore |-> 0, seq |-> FALSE]

\* TdSettled seeing the fulfilment only, as a .then() without .catch() would
TdSettledDone(r) == r.pc = "done"

\* the promise of stopProgram() has settled: fulfilled or rejected
TdSettled(r) == r.pc \in {"done", "failed"}

\* ListenersOff removing the SIGTERM listener only
ListenersOffTerm(ls) == ls \ {"SIGTERM"}

\* process.off("SIGTERM", termHandler); process.off("SIGINT", termHandler)
\* (lines 235-236)
ListenersOff(ls) == ls \ Signals

\* stopProgram() from its call to its first suspension: process.off twice,
\* then the head of the drain loop (lines 235-237, 224-226)
StartTeardown(trig) ==
    /\ nTd < MaxTeardowns
    /\ nTd' = nTd + 1
    /\ listeners' = ListenersOff(listeners)
    /\ td' = [td EXCEPT ![nTd + 1] =
         DrainRec([IdleTd EXCEPT !.trigger = trig,
                                 !.hooksBefore = NumHooks,
                                 !.seq = \A u \in 1..nTd : TdSettled(td[u])])]
    /\ DrainHooks(0, "none")
    /\ UNCHANGED <<registry, startVars, stopCalls, obsVars>>

\* program.stop() called by the wiring function or by a holder of the handle
\* (one invocation is kept for the catch block of run while it can be entered)
CallStop ==
    /\ Alive
    /\ nTd < MaxTeardowns - (IF runPc \in {"wiring", "wired", "awaitStart"} THEN 1 ELSE 0)
    /\ StartTeardown("stop")
    /\ UNCHANGED runVars

\* a shutdown hook's promise settles and await (shift()!)() resumes: a
\* rejection is caught and logged (lines 227-230), then the loop head runs
TdDrainNext(t, ok) ==
    /\ Alive
    /\ td[t].pc = "hookwait"
    /\ td' = [td EXCEPT ![t] = DrainRec(td[t])]
    /\ DrainHooks(td[t].hook, IF ok THEN "resolved" ELSE "rejected")
    /\ logged' = IF ok THEN logged ELSE logged \cup {<<"hook-error", td[t].hook>>}
    /\ UNCHANGED <<registry, runVars, listeners, startVars, nTd, stopCalls, invoked>>

\* StopHook exposing the stop hook only of a component whose start hook was
\* dispatched
StopHookStarted(c) == IF startCalls[c] = 0 THEN "absent" ELSE ResolveStop(registry[c])

\* the stop hook stopAllComponents finds on component c (lines 15-24): the
\* test reads the component only, not what startComponentsLifecycle did
StopHook(c) == ResolveStop(registry[c])

\* Object.keys(components).reverse() (line 11)
ReverseKeys(n) == [i \in 1..n |-> n - i + 1]

\* for (let c of reverseKeys) from position p to the first entry that throws
\* or whose stop hook is called (lines 12-24)
RECURSIVE ScanStop(_, _)
ScanStop(keys, p) ==
    IF p > Len(keys) THEN [kind |-> "end", c |-> 0, pos |-> p]
    ELSE IF registry[keys[p]].kind = "null" THEN [kind |-> "null", c |-> keys[p], pos |-> p]
    ELSE IF StopHook(keys[p]) # "absent" THEN [kind |-> "invoke", c |-> keys[p], pos |-> p]
    ELSE ScanStop(keys, p + 1)

\* AwaitStop with the await missing: the operation is left pending
NoAwaitStop(op, ok) == op

\* what await component[STOP_COMPONENT]() (lines 17, 23) leaves of the
\* awaited operation: the loop goes on only once the operation has settled
AwaitStop(op, ok) == IF ok THEN "resolved" ELSE "rejected"

\* StopThrows with the rejection swallowed, as a try/catch in the loop would
StopSwallowed(op) == FALSE

\* await component[STOP_COMPONENT]() rethrows the rejection of the awaited
\* operation, which leaves stopAllComponents
StopThrows(op) == op = "rejected"

\* stopAllComponents from its call, or from the settling of the awaited stop
\* operation, to the next suspension or to its end
TdStopResume(t, ok) ==
    /\ Alive
    /\ td[t].pc = "comps"
    /\ LET r == IF td[t].cur = 0 THEN td[t]
                ELSE [td[t] EXCEPT !.ops[td[t].cur] = AwaitStop(@, ok)]
           s == ScanStop(ReverseKeys(Len(registry)), r.pos + 1)
       IN
       IF r.cur # 0 /\ StopThrows(r.ops[r.cur])
       THEN /\ td' = [td EXCEPT ![t] = [r EXCEPT !.pc = "failed", !.err = StopErr(r.cur)]]
            /\ UNCHANGED <<stopCalls, obsVars>>
       ELSE IF s.kind = "end"
       THEN /\ td' = [td EXCEPT ![t] = [r EXCEPT !.pc = "done", !.cur = 0]]
            /\ UNCHANGED <<stopCalls, obsVars>>
       ELSE IF s.kind = "null"
       THEN /\ td' = [td EXCEPT ![t] = [r EXCEPT !.pc = "failed", !.err = NullErr(s.c)]]
            /\ UNCHANGED <<stopCalls, obsVars>>
       ELSE /\ td' = [td EXCEPT ![t] = [r EXCEPT !.pos = s.pos, !.cur = s.c,
                                                  !.ops[s.c] = "pending",
                                                  !.log = Append(@, s.c)]]
            /\ stopCalls' = [stopCalls EXCEPT ![s.c] = @ + 1]
            /\ invoked' = invoked \cup {<<"stop", s.c, StopHook(s.c)>>}
            /\ logged' = IF StopHook(s.c) = "legacy"
                         THEN logged \cup {<<"stop-deprecated", s.c>>} ELSE logged
    /\ UNCHANGED <<registry, runVars, listeners, hookVars, startVars, nTd>>

\* ------------------------------------------------------ termHandler, run
\* a termination signal is delivered to an installed listener: termHandler
\* calls stopProgram() (lines 241-243)
Signal(s) ==
    /\ Alive
    /\ s \in listeners
    /\ StartTeardown("signal")
    /\ UNCHANGED runVars

\* TermExitCode exiting with status 0 whatever stopProgram() did
TermExitCodeZero(pc) == 0

\* the exit status termHandler chooses: process.exit() after a fulfilled
\* stopProgram(), process.exit(1) after a rejected one (lines 244-249)
TermExitCode(pc) == IF pc = "done" THEN 0 ELSE 1

\* .then(() => process.exit()) / .catch(... process.exit(1)) (lines 244-249)
TermExit(t) ==
    /\ Alive
    /\ td[t].trigger = "signal"
    /\ TdSettled(td[t])
    /\ exitCode' = TermExitCode(td[t].pc)
    /\ logged' = IF td[t].pc = "done" THEN logged ELSE logged \cup {<<"term-error", 0>>}
    /\ UNCHANGED <<registry, runPc, mainErr, topErr, listeners, hookVars, startVars, stopVars, invoked>>

\* the wiring function config.main(program) returns
MainReturn ==
    /\ Alive
    /\ runPc = "wiring"
    /\ runPc' = "wired"
    /\ UNCHANGED <<registry, mainErr, topErr, exitCode, listeners, hookVars, startVars, stopVars, obsVars>>

\* ListenersOnWired with process.on placed before await componentsStarted
ListenersOnWiredEarly(cs) == Signals

\* the listeners the segment after the return of config.main installs
\* (lines 279-287): both when startComponents() was never called, none yet
\* when the segment suspends at await componentsStarted
ListenersOnWired(cs) == IF cs = 0 THEN Signals ELSE {}

\* WiredLog writing no warning
WiredLogSilent(cs) == {}

\* if (!componentsStarted) log('WARN', "... startComponents was not called
\* inside programEntryPoint.main function") (lines 279-281)
WiredLog(cs) == IF cs = 0 THEN {<<"startComponents-not-called", 0>>} ELSE {}

\* resumption of await config.main(program): lines 279-287
RunAfterMain ==
    /\ Alive
    /\ runPc = "wired"
    /\ runPc' = IF componentsStarted = 0 THEN "returned" ELSE "awaitStart"
    /\ listeners' = listeners \cup ListenersOnWired(componentsStarted)
    /\ logged' = logged \cup WiredLog(componentsStarted)
    /\ UNCHANGED <<registry, mainErr, topErr, exitCode, hookVars, startVars, stopVars, invoked>>

\* catch (e) { try { await program.stop() } ... }: lines 288-291
RunCatch(e) ==
    /\ runPc' = "catchStop"
    /\ mainErr' = e
    /\ StartTeardown("catch")
    /\ UNCHANGED <<topErr, exitCode>>

\* resumption of await componentsStarted (line 282)
RunAwaitStart ==
    /\ Alive
    /\ runPc = "awaitStart"
    /\ Settled(lc[componentsStarted].pc)
    /\ IF lc[componentsStarted].pc = "resolved"
       THEN /\ runPc' = "returned"
            /\ listeners' = listeners \cup Signals
            /\ UNCHANGED <<registry, mainErr, topErr, exitCode, hookVars, startVars, stopVars, obsVars>>
       ELSE RunCatch(lc[componentsStarted].err)

\* the errors the wiring function can throw: one of its own, or the
\* rejection of a startComponents() call it awaited
MainErrors ==
    {WiringErr} \cup { lc[calls[i]].err : i \in { j \in DOMAIN calls : lc[calls[j]].pc = "rejected" } }

\* the wiring function throws
MainThrow(e) ==
    /\ Alive
    /\ runPc = "wiring"
    /\ e \in MainErrors
    /\ RunCatch(e)

\* CatchResult letting the error of the rollback stop() replace e
CatchResultStopErr(e, stopErr) == IF stopErr.kind # "none" THEN stopErr ELSE e

\* finally { throw e } (lines 292-298): the error that leaves run()
CatchResult(e, stopErr) == e

\* CatchLog printing nothing
CatchLogSilent(failed) == {}

\* catch (err) { console.error(err) } (lines 291-293): the line printed when
\* the stop() of the catch block rejected
CatchLog(failed) == IF failed THEN {<<"catch-stop-error", 0>>} ELSE {}

\* resumption of await program.stop() in the catch block (console.error(err)
\* when it rejected), the rethrow, and asyncTopLevelExceptionHanler:
\* console.error(error); process.exit(1)
RunRethrow(t) ==
    /\ Alive
    /\ runPc = "catchStop"
    /\ td[t].trigger = "catch"
    /\ TdSettled(td[t])
    /\ runPc' = "exited"
    /\ topErr' = CatchResult(mainErr, td[t].err)
    /\ exitCode' = 1
    /\ logged' = logged \cup {<<"top-level-error", 0>>}
                    \cup CatchLog(td[t].pc = "failed")
    /\ UNCHANGED <<registry, mainErr, listeners, hookVars, startVars, stopVars, invoked>>

\* the state in which run() calls config.main(program) (lines 217-277)
InitState ==
    /\ runPc = "wiring"
    /\ mainErr = NoErr
    /\ topErr = NoErr
    /\ exitCode = -1
    /\ listeners = {}
    /\ handlers = <<>>
    /\ hookState = [h \in 1..MaxHooks |-> "none"]
    /\ hookLog = <<>>
    /\ componentsStarted = 0
    /\ calls = <<>>
    /\ lc = [l \in 1..MaxStartCalls |-> IdleLc]
    /\ startCalls = [c \in Comps |-> 0]
    /\ td = [t \in 1..MaxTeardowns |-> IdleTd]
    /\ nTd = 0
    /\ stopCalls = [c \in Comps |-> 0]
    /\ invoked = {}
    /\ logged = {}

Init == registry \in Registries /\ InitState

Next ==
    \/ CallStartComponents
    \/ \E l \in 1..MaxStartCalls, o \in {"sync", "throw", "pending"} : LcCheck(l, o)
    \/ \E l \in 1..MaxStartCalls, ok \in BOOLEAN : LcAwaited(l, ok)
    \/ \E l \in 1..MaxStartCalls : LcJoin(l)
    \/ RegisterHook
    \/ CallStop
    \/ \E t \in 1..MaxTeardowns, ok \in BOOLEAN : TdDrainNext(t, ok)
    \/ \E t \in 1..MaxTeardowns, ok \in BOOLEAN : TdStopResume(t, ok)
    \/ \E s \in Signals : Signal(s)
    \/ \E t \in 1..MaxTeardowns : TermExit(t)
    \/ MainReturn
    \/ RunAfterMain
    \/ RunAwaitStart
    \/ \E e \in MainErrors : MainThrow(e)
    \/ \E t \in 1..MaxTeardowns : RunRethrow(t)

Spec == Init /\ [][Next]_vars

\* Start-up alone: the wiring function registers no shutdown hook and calls
\* no stop(), and no signal arrives; the only shutdown is the one of run's
\* catch block.  The actions left out write none of the variables that
\* startComponentsLifecycle or the catch block read.
NextStart ==
    \/ CallStartComponents
    \/ \E l \in 1..MaxStartCalls, o \in {"sync", "throw", "pending"} : LcCheck(l, o)
    \/ \E l \in 1..MaxStartCalls, ok \in BOOLEAN : LcAwaited(l, ok)
    \/ \E l \in 1..MaxStartCalls : LcJoin(l)
    \/ \E t \in 1..MaxTeardowns, ok \in BOOLEAN : TdStopResume(t, ok)
    \/ MainReturn
    \/ RunAfterMain
    \/ RunAwaitStart
    \/ \E e \in MainErrors : MainThrow(e)
    \/ \E t \in 1..MaxTeardowns : RunRethrow(t)

SpecStart == Init /\ [][NextStart]_vars

\* Shutdown alone: the wiring function never calls startComponents().
\* stopProgram reads nothing that startComponentsLifecycle writes.
NextStop ==
    \/ RegisterHook
    \/ CallStop
    \/ \E t \in 1..MaxTeardowns, ok \in BOOLEAN : TdDrainNext(t, ok)
    \/ \E t \in 1..MaxTeardowns, ok \in BOOLEAN : TdStopResume(t, ok)
    \/ \E s \in Signals : Signal(s)
    \/ \E t \in 1..MaxTeardowns : TermExit(t)
    \/ MainReturn
    \/ RunAfterMain
    \/ \E e \in MainErrors : MainThrow(e)
    \/ \E t \in 1..MaxTeardowns : RunRethrow(t)

SpecStop == Init /\ [][NextStop]_vars

\* Start-up and the shutdown of run's catch block over registries that mix
\* the hook conventions and hold entries that are null or a promise.
InitEntries == registry \in EntryRegistries /\ InitState

SpecEntries == InitEntries /\ [][NextStart]_vars

\* The wiring function at work, before it returns or throws: it registers
\* hooks, calls startComponents() (once) and calls stop(), in any order and
\* without waiting for either.
NextWiring ==
    \/ calls = <<>> /\ CallStartComponents
    \/ \E l \in 1..MaxStartCalls, o \in {"sync", "throw", "pending"} : LcCheck(l, o)
    \/ \E l \in 1..MaxStartCalls, ok \in BOOLEAN : LcAwaited(l, ok)
    \/ \E l \in 1..MaxStartCalls : LcJoin(l)
    \/ RegisterHook
    \/ CallStop
    \/ \E t \in 1..MaxTeardowns, ok \in BOOLEAN : TdDrainNext(t, ok)
    \/ \E t \in 1..MaxTeardowns, ok \in BOOLEAN : TdStopResume(t, ok)

SpecWiring == Init /\ [][NextWiring]_vars

\* The running program: the wiring function only registers hooks and
\* returns; once run() has resolved, holders of the handle call stop() and
\* signals arrive.
NextRunning ==
    \/ RegisterHook
    \/ MainReturn
    \/ RunAfterMain
    \/ runPc = "returned" /\ CallStop
    \/ \E s \in Signals : Signal(s)
    \/ \E t \in 1..MaxTeardowns, ok \in BOOLEAN : TdDrainNext(t, ok)
    \/ \E t \in 1..MaxTeardowns, ok \in BOOLEAN : TdStopResume(t, ok)
    \/ \E t \in 1..MaxTeardowns : TermExit(t)

\* Progress of a shutdown: a stopProgram invocation that can take a step
\* eventually takes it (every promise a hook returned settles and the event
\* loop runs every continuation that is ready), and the handlers termHandler
\* chained on a settled stopProgram() run.
FairStop ==
    \A t \in 1..MaxTeardowns :
        /\ WF_vars(\E ok \in BOOLEAN : TdDrainNext(t, ok))
        /\ WF_vars(\E ok \in BOOLEAN : TdStopResume(t, ok))
        /\ WF_vars(TermExit(t))

SpecRunningFair == Init /\ [][NextRunning]_vars /\ FairStop

\* ================================================================ claims
Teardowns  == 1..MaxTeardowns
Lifecycles == 1..MaxStartCalls

HasStop(c)  == ResolveStop(registry[c]) # "absent"
AllExposeStop == \A c \in Comps : HasStop(c)

\* C1: a stop() issued after an earlier stop() has resolved invokes no stop
\* hook, and every component's stop hook has been invoked at most once.
C1_SecondStopInvokesNoHook ==
    \A t \in 2..MaxTeardowns :
        ( /\ td[t].trigger = "stop" /\ td[t].seq
          /\ td[t - 1].trigger = "stop" /\ td[t - 1].pc = "done" )
        => ( /\ td[t].log = <<>>
             /\ \A c \in Comps : stopCalls[c] <= 1 )

\* C2: in a run where a termination signal and an explicit stop() both
\* trigger the shutdown, no component's stop hook is invoked more than once.
C2_SignalAndStopAtMostOnce ==
    ( /\ \E t \in Teardowns : td[t].trigger = "signal"
      /\ \E t \in Teardowns : td[t].trigger = "stop" )
    => \A c \in Comps : stopCalls[c] <= 1

\* C3: within one shutdown the stop hooks are invoked in reverse registry
\* order (N, N-1, ..., 1 when every component exposes a stop hook), and a
\* stop hook is invoked only after every stop operation that shutdown
\* invoked before it has completed.
C3_ReverseOrderSequential ==
    \A t \in Teardowns :
        \A i \in DOMAIN td[t].log :
            /\ AllExposeStop => td[t].log[i] = Len(registry) - i + 1
            /\ \A j \in 1..(i - 1) :
                  /\ td[t].log[j] > td[t].log[i]
                  /\ td[t].ops[td[t].log[j]] = "resolved"

C3_Witness ==
    \E t \in Teardowns :
        /\ Len(registry) >= 2 /\ AllExposeStop
        /\ td[t].pc = "done"
        /\ Len(td[t].log) = Len(registry)

\* C4: shutdown hooks are invoked in their registration order, none twice,
\* over all stop() calls and signals; and a shutdown that has reached the
\* component stop phase has invoked every hook registered before it began,
\* whether or not an earlier hook rejected.
C4_HooksFifoOnce ==
    /\ \A i \in DOMAIN hookLog : hookLog[i] = i
    /\ \A t \in Teardowns :
          td[t].pc \in {"comps", "done", "failed"}
          => \A h \in 1..td[t].hooksBefore : hookState[h] \in {"pending", "resolved", "rejected"}

C4_Witness ==
    /\ hookState[1] = "rejected"
    /\ hookLog = <<1, 2>>
    /\ \E t \in Teardowns : td[t].hooksBefore = 2 /\ td[t].log # <<>>

\* C5: once run() has handled the failure of the start hook at position k
\* (with the rollback stop() as the only shutdown of the run), every earlier
\* component that had a pending start operation and exposes a stop hook has
\* received exactly one stop call.
C5_RollbackStopsEveryEarlier ==
    \A l \in Lifecycles :
        ( /\ runPc = "exited" /\ nTd = 1
          /\ lc[l].pc = "rejected" /\ lc[l].err.kind = "start" )
        => \A c \in PendingOps(lc[l]) :
              (c < lc[l].err.c /\ HasStop(c)) => stopCalls[c] = 1

\* C6: when a start hook fails, startComponents() rejects with the failure
\* of that component; no error of a stop call ever reaches the top-level
\* handler, and unless the wiring function threw an error of its own the
\* error that reaches it is that start failure.
C6_OriginalStartErrorPropagates ==
    /\ \A l \in Lifecycles : \A c \in Comps :
          lc[l].ops[c] \in {"rejected", "threw"}
          => (lc[l].pc = "rejected" => lc[l].err = StartErr(c))
    /\ topErr.kind # "stop"
    /\ \A l \in Lifecycles :
          ( /\ runPc = "exited" /\ componentsStarted = l
            /\ lc[l].pc = "rejected" /\ lc[l].err.kind = "start"
            /\ mainErr.kind # "wiring" )
          => topErr = lc[l].err

C6_Witness ==
    /\ runPc = "exited"
    /\ topErr.kind = "start"
    /\ \E t \in Teardowns : td[t].trigger = "catch" /\ td[t].err.kind = "stop"

\* C7: a startComponents() that resolved without any pending start
\* operation has live() = true and started() = true.
C7_NoPendingMeansStarted ==
    \A l \in Lifecycles :
        (lc[l].pc = "resolved" /\ lc[l].pending = <<>>)
        => (lc[l].live /\ lc[l].started)

\* C8: while the start operation of some component is pending, live() is
\* true and started() is false.
C8_LiveWhilePending ==
    \A l \in Lifecycles : \A c \in Comps :
        lc[l].ops[c] = "pending" => (lc[l].live /\ ~lc[l].started)

\* C9: started() implies live() and that every dispatched start operation
\* has resolved; neither flag ever goes back to false.
C9_StartedImpliesLive ==
    /\ [](\A l \in Lifecycles :
            lc[l].started
            => /\ lc[l].live
               /\ \A c \in Comps : lc[l].ops[c] \in {"none", "resolved"})
    /\ [][\A l \in Lifecycles :
            /\ lc[l].live => lc'[l].live
            /\ lc[l].started => lc'[l].started]_vars

C9_Witness ==
    \E l \in Lifecycles :
        lc[l].started /\ Len(lc[l].pending) >= 2

\* C10: each component's start hook is invoked at most once over all
\* startComponents() calls, and a call that has settled has the outcome of
\* the first call.
C10_StartOneShot ==
    /\ \A c \in Comps : startCalls[c] <= 1
    /\ \A i \in DOMAIN calls :
          Settled(lc[calls[i]].pc)
          => /\ lc[calls[i]].pc = lc[calls[1]].pc
             /\ lc[calls[i]].err = lc[calls[1]].err

C10_Witness ==
    /\ Len(calls) >= 2
    /\ Settled(lc[calls[2]].pc)
    /\ \E c \in Comps : startCalls[c] = 1
\* C11: a hook is called only on a component that exposes it; with both
\* conventions exposed only the current (symbol-keyed) hook is called; a
\* component exposing only the deprecated name has that hook called and the
\* deprecation warning logged; a component the start loop has passed, or a
\* completed shutdown has passed, had its hook called unless it has none.
HookNameOf(ph, c) == IF ph = "start" THEN registry[c].start ELSE registry[c].stop

Called(ph, c) == \E k \in {"current", "legacy"} : <<ph, c, k>> \in invoked

C11_HookResolution ==
    /\ \A e \in invoked :
          LET ph == e[1]  c == e[2]  k == e[3]  name == HookNameOf(ph, c) IN
          /\ registry[c].kind = "object"
          /\ name # "none"
          /\ name \in {"current", "both"} => k = "current"
          /\ name = "legacy" => (k = "legacy" /\ <<IF ph = "start" THEN "start-deprecated"
                                                    ELSE "stop-deprecated", c>> \in logged)
    /\ \A l \in Lifecycles : \A c \in Comps :
          ( /\ lc[l].pc # "idle"
            /\ (lc[l].idx > c \/ lc[l].pc \in {"join", "resolved"})
            /\ registry[c].kind = "object" /\ registry[c].start # "none" )
          => Called("start", c)
    /\ \A t \in Teardowns : \A c \in Comps :
          (td[t].pc = "done" /\ registry[c].kind = "object" /\ registry[c].stop # "none")
          => Called("stop", c)

C11_Witness ==
    \E c, d \in Comps :
        /\ registry[c].start = "both" /\ <<"start", c, "current">> \in invoked
        /\ registry[d].stop = "legacy" /\ <<"stop", d, "legacy">> \in invoked
        /\ <<"stop-deprecated", d>> \in logged
\* C12: when the stop hook of component c rejects in a shutdown, that
\* shutdown has invoked no stop hook of a component below c and never does,
\* and it (and so the stop() call) rejects with the error of c.
C12_StopFailureAborts ==
    \A t \in Teardowns : \A c \in Comps :
        td[t].ops[c] = "rejected"
        => /\ td[t].pc = "failed"
           /\ td[t].err = StopErr(c)
           /\ \A d \in Comps : d < c => td[t].ops[d] = "none"

C12_Witness ==
    \E t \in Teardowns :
        /\ td[t].trigger = "stop"
        /\ td[t].pc = "failed" /\ td[t].err = StopErr(2)
        /\ HasStop(1) /\ td[t].ops[1] = "none"

\* C13: the termination-signal listeners are installed (both together) only
\* once the wiring function has returned without failure and, if
\* startComponents() was called, once it has resolved; a run that has
\* reached the listening state never enters the catch block and a run that
\* has entered the catch block never has a listener.
C13_ListenersAfterSuccess ==
    /\ [](listeners # {}
          => /\ listeners = Signals
             /\ runPc = "returned"
             /\ mainErr = NoErr
             /\ componentsStarted # 0 => lc[componentsStarted].pc = "resolved")
    /\ [][/\ runPc = "returned" => runPc' = "returned"
          /\ runPc \in {"catchStop", "exited"}
               => (runPc' \in {"catchStop", "exited"} /\ listeners' = {})]_vars

C13_Witness ==
    /\ listeners = Signals
    /\ componentsStarted # 0
    /\ lc[1].started

\* C14: once stop() has been invoked (by the wiring function, by a holder
\* of the handle or by run's catch block) no termination-signal listener is
\* installed.
C14_NoListenerAfterStop ==
    (\E t \in Teardowns : td[t].trigger \in {"stop", "catch"}) => listeners = {}

\* C15: when the wiring function throws, run() calls stop() exactly once;
\* an error of that stop() is logged; the error that reaches the top-level
\* handler is the wiring error; the process exits with status 1.
C15_WiringFailure ==
    /\ mainErr = WiringErr
         => Cardinality({ t \in Teardowns : td[t].trigger = "catch" }) = 1
    /\ (runPc = "exited" /\ mainErr = WiringErr)
         => /\ topErr = WiringErr
            /\ exitCode = 1
            /\ \A t \in Teardowns :
                  (td[t].trigger = "catch" /\ td[t].pc = "failed")
                  => <<"catch-stop-error", 0>> \in logged

C15_Witness ==
    /\ runPc = "exited"
    /\ mainErr = WiringErr
    /\ \E t \in Teardowns : td[t].trigger = "catch" /\ td[t].err.kind = "stop"

\* C16: in the running state the process exits only through termHandler:
\* with status 0 after a signal-triggered shutdown that completed, with a
\* non-zero status after one that a stop failure ended.
C16_SignalExitStatus ==
    [][(Alive /\ ~Alive' /\ runPc = "returned")
        => \E t \in Teardowns :
              /\ td[t].trigger = "signal"
              /\ \/ td[t].pc = "done" /\ exitCode' = 0
                 \/ td[t].pc = "failed" /\ exitCode' > 0]_vars

C16_Witness ==
    /\ runPc = "returned"
    /\ exitCode = 1
    /\ \E t \in Teardowns : td[t].trigger = "signal" /\ td[t].err.kind = "stop"

\* C17: when startComponents() fails on a null entry, no start hook of any
\* component has been invoked.
C17_NullBeforeAnyHook ==
    \A l \in Lifecycles :
        (lc[l].pc = "rejected" /\ lc[l].err.kind = "null")
        => \A c \in Comps : startCalls[c] = 0

\* C18: start-up never goes past an entry that is a promise and never
\* completes successfully with such an entry in the registry.
C18_PromiseEntryFatal ==
    \A l \in Lifecycles : \A c \in Comps :
        registry[c].kind = "promise"
        => /\ lc[l].idx <= c
           /\ lc[l].pc \notin {"join", "resolved"}

\* C19: once a shutdown has begun, no start hook is invoked.
C19_NoStartAfterShutdown ==
    [][nTd > 0 => startCalls' = startCalls]_vars

\* C20: whenever a component stop hook is invoked, every shutdown hook that
\* was registered before the first shutdown began has run to completion.
C20_HooksBeforeStops ==
    [][stopCalls' # stopCalls
        => \A h \in 1..td[1].hooksBefore : hookState[h] \in {"resolved", "rejected"}]_vars

C22_StartInOrder ==
    [][\A c \in Comps :
          startCalls'[c] > startCalls[c]
          => \A d \in Comps :
                /\ (d < c /\ ResolveStart(registry[d]) # "absent")
                     => /\ startCalls[d] >= 1
                        /\ \A l \in Lifecycles : lc[l].ops[d] \in {"none", "resolved"}
                /\ d > c => startCalls[d] = 0]_vars

C22_Witness ==
    /\ Len(registry) >= 2
    /\ startCalls[2] = 1
    /\ \E l \in Lifecycles : lc[l].ops[1] = "resolved"

\* C23: at no time are two hooks registered with beforeStopComponents
\* executing (invoked and not yet settled).
C23_HooksOneAtATime ==
    Cardinality({ h \in 1..MaxHooks : hookState[h] = "pending" }) <= 1

C25_StopIgnoresStartState ==
    \A t \in Teardowns :
        /\ td[t].pc \in {"comps", "done", "failed"}
             => \A h \in 1..td[t].hooksBefore : hookState[h] # "queued"
        /\ td[t].pc = "done"
             => \A c \in Comps : HasStop(c) => td[t].ops[c] = "resolved"

C25_Witness ==
    \E t \in Teardowns, c \in Comps, l \in Lifecycles :
        /\ td[t].trigger = "stop" /\ td[t].pc = "done" /\ td[t].hooksBefore >= 1
        /\ lc[l].pc \in {"check", "await"}
        /\ ResolveStart(registry[c]) # "absent" /\ startCalls[c] = 0
        /\ td[t].ops[c] = "resolved"

\* C26: in a run in which stop() is never called by the wiring function or
\* by a holder of the handle, at most one shutdown is triggered by signals,
\* whatever signals arrive and whenever; every component stop hook and every
\* shutdown hook has been invoked at most once.
C26_SignalsTeardownOnce ==
    (\A t \in Teardowns : td[t].trigger # "stop")
    => /\ Cardinality({ t \in Teardowns : td[t].trigger = "signal" }) <= 1
       /\ \A c \in Comps : stopCalls[c] <= 1
       /\ \A i, j \in DOMAIN hookLog : i # j => hookLog[i] # hookLog[j]

C26_Witness ==
    /\ \A t \in Teardowns : td[t].trigger # "stop"
    /\ exitCode = 0
    /\ hookLog # <<>>
    /\ \E t \in Teardowns : td[t].trigger = "signal" /\ td[t].log # <<>>

\* C27 as stated: with progress every shutdown that has begun eventually
\* completes or fails, and a shutdown a signal triggered leads to the exit of
\* the process; and a shutdown suspended at a shutdown hook has invoked no
\* component stop hook and leaves that suspension only by the settling of
\* that hook.
C27_EveryStopSettles ==
    /\ \A t \in Teardowns :
          /\ (td[t].pc # "idle") ~> (td[t].pc \in {"done", "failed"})
          /\ (td[t].trigger = "signal") ~> ~Alive
    /\ [](\A t \in Teardowns : td[t].pc = "hookwait" => td[t].log = <<>>)
    /\ [][\A t \in Teardowns :
            (td[t].pc = "hookwait" /\ td'[t].pc # "hookwait")
            => hookState'[td[t].hook] \in {"resolved", "rejected"}]_vars

\* C27: with progress every shutdown that has begun eventually completes or
\* fails unless the process exits first, and a shutdown a signal triggered
\* leads to the exit of the process; and a shutdown suspended at a shutdown
\* hook has invoked no component stop hook and leaves that suspension only
\* by the settling of that hook.
C27_ShutdownProgress ==
    /\ \A t \in Teardowns :
          /\ (td[t].pc # "idle") ~> (td[t].pc \in {"done", "failed"} \/ ~Alive)
          /\ (td[t].trigger = "signal") ~> ~Alive
    /\ [](\A t \in Teardowns : td[t].pc = "hookwait" => td[t].log = <<>>)
    /\ [][\A t \in Teardowns :
            (td[t].pc = "hookwait" /\ td'[t].pc # "hookwait")
            => hookState'[td[t].hook] \in {"resolved", "rejected"}]_vars

C27_Witness ==
    /\ exitCode = 0
    /\ hookState[1] = "rejected"
    /\ \E t \in Teardowns : td[t].trigger = "signal" /\ td[t].log # <<>>
    /\ \E t \in Teardowns : td[t].trigger = "stop" /\ td[t].pc \in {"done", "failed"}
====
